---- MODULE Spec2Model ----
(***************************************************************************)
(* Model of the two online anomaly detectors of src/algorithms.py:         *)
(* ZScoreAnomalyDetector (sliding-window Z-score) and                      *)
(* OnlineKNNAnomalyDetector (bounded memory, k-th nearest neighbour        *)
(* distance against an explicit or auto-calibrated threshold).             *)
(*                                                                         *)
(* One detector instance is constructed and then driven through its        *)
(* contract operation is_anomaly(point), one call per step.                *)
(*                                                                         *)
(* Arithmetic.  The code works on floats; the model works on integers and  *)
(* keeps every comparison exact:                                           *)
(*  - data points are pairs of integers drawn from Points, a set whose     *)
(*    pairwise Euclidean distances are all integers, so Sqrt is exact on   *)
(*    every value distance() is applied to;                                *)
(*  - a calibrated threshold mean + 2.7 * std is kept as the triple        *)
(*    (n, sum, sumsq) of the k-NN distances it is computed from, and       *)
(*    "d > mean + 2.7*std" is decided as                                   *)
(*       n*d - sum > 0  /\  100*(n*d - sum)^2 > 729*(n*sumsq - sum^2);     *)
(*  - "|p - mean| / std > z" is decided as                                 *)
(*       z < 0  \/  (n*p - sum)^2 > z^2 * (n*sumsq - sum^2).               *)
(* On the points of Points these decisions coincide with the ones IEEE     *)
(* double arithmetic takes.  On other inputs rounding can decide a         *)
(* comparison whose two sides are equal in exact arithmetic either way,    *)
(* and can leave a tiny non-zero std on a constant column; the properties  *)
(* below are statements about the exact-arithmetic decisions.              *)
(***************************************************************************)
EXTENDS Integers, Sequences, FiniteSets, TLC

(***************************************************************************)
(* Bounds of the model.                                                    *)
(***************************************************************************)
MaxCalls == 5
MaxWindow == 3

\* Data points: 2-tuples as in Tuple[float, float].  All pairwise distances
\* are integers: 6, 8, 9, 10, 15, 17.
Points == { <<0, 0>>, <<6, 0>>, <<0, 8>>, <<15, 0>> }

\* Constructor arguments tried, valid and invalid ones.
WindowSizes == -1 .. MaxWindow
Ks == 0 .. MaxWindow
ZThresholds == { -1, 0, 1, 2 }
ExplicitThresholds == { -1, 0, 9 }

VARIABLES
    pc,                            \* "init", "ready" (object exists), "failed" (constructor raised)
    detector,                      \* "none", "zscore", "knn"
    window_size,                   \* self.window_size
    z_threshold,                   \* self.z_threshold
    k,                             \* self.k
    threshold,                     \* self.threshold
    is_auto_threshold_calculated,  \* self.is_auto_threshold_calculated
    data_history,                  \* self.data_history (deque, oldest first)
    memory,                        \* self.memory (rows, oldest first)
    calibrations,                  \* number of calls of calculate_threshold so far
    points_fed,                    \* history: the points passed to is_anomaly, in order
    results                        \* history: "false", "true" or "raise" for each call

vars == << pc, detector, window_size, z_threshold, k, threshold,
           is_auto_threshold_calculated, data_history, memory,
           calibrations, points_fed, results >>

(***************************************************************************)
(* Thresholds.                                                             *)
(***************************************************************************)
NoneThreshold == [tag |-> "none", val |-> 0, n |-> 0, sum |-> 0, sumsq |-> 0]

ExplicitThreshold(v) == [tag |-> "explicit", val |-> v, n |-> 0, sum |-> 0, sumsq |-> 0]

\* mean(distances) + 2.7 * std(distances), kept exactly
AutoThreshold(n, s, q) == [tag |-> "auto", val |-> 0, n |-> n, sum |-> s, sumsq |-> q]

ThresholdArgs == { NoneThreshold } \cup { ExplicitThreshold(v) : v \in ExplicitThresholds }

(***************************************************************************)
(* Numeric helpers (numpy).                                                *)
(***************************************************************************)
RECURSIVE SeqSum(_)
SeqSum(s) == IF s = << >> THEN 0 ELSE Head(s) + SeqSum(Tail(s))

Square(x) == x * x

\* np.sqrt on a perfect square
Sqrt(x) == CHOOSE r \in 0 .. x : r * r <= x /\ x < (r + 1) * (r + 1)

\* np.sort
Sort(s) == SortSeq(s, LAMBDA a, b : a < b)

\* np.delete(arr, i, axis=0) with the 0-based row i; here i is 1-based
Delete(s, i) == [ j \in 1 .. (Len(s) - 1) |-> IF j < i THEN s[j] ELSE s[j + 1] ]

Column(s, d) == [ j \in 1 .. Len(s) |-> s[j][d] ]

Squares(s) == [ j \in 1 .. Len(s) |-> Square(s[j]) ]

\* n^2 * population variance of s
VarNum(s) == Len(s) * SeqSum(Squares(s)) - Square(SeqSum(s))

(***************************************************************************)
(* ZScoreAnomalyDetector                                                   *)
(***************************************************************************)
\* deque(maxlen=window_size) raises ValueError for a negative maxlen;
\* nothing else is checked by __init__
ZScoreInitRaises(ws, zt) == ws < 0

\* mutant: a plain list in place of the bounded deque
DequeAppendUnbounded(dq, p, maxlen) == Append(dq, p)

\* deque.append on a deque with maxlen: a full deque drops its oldest entry,
\* a deque of maxlen 0 stays empty
DequeAppend(dq, p, maxlen) ==
    IF maxlen = 0 THEN << >>
    ELSE IF Len(dq) >= maxlen THEN Append(Tail(dq), p)
    ELSE Append(dq, p)

\* mutant: the warm-up test is off by one
ZScoreWarmingUpShort(dq, ws) == Len(dq) < ws - 1

\* len(self.data_history) < self.window_size
ZScoreWarmingUp(dq, ws) == Len(dq) < ws

\* mutant: np.all in place of np.any
AllStdZero(dq) == \A d \in 1 .. 2 : VarNum(Column(dq, d)) = 0

\* np.any(std_dev == 0) over the columns of data_array
AnyStdZero(dq) == \E d \in 1 .. 2 : VarNum(Column(dq, d)) = 0

\* abs((data_point[d] - mean[d]) / std_dev[d]) > z_threshold, std_dev[d] # 0
ZScoreExceeds(dq, p, d, zt) ==
    \/ zt < 0
    \/ Square(Len(dq) * p[d] - SeqSum(Column(dq, d))) > Square(zt) * VarNum(Column(dq, d))

\* mutant: np.all in place of np.any
ZScoreAllExceeds(dq, p, zt) == \A d \in 1 .. 2 : ZScoreExceeds(dq, p, d, zt)

\* np.any(np.abs(z_scores) > self.z_threshold)
ZScoreAnyExceeds(dq, p, zt) == \E d \in 1 .. 2 : ZScoreExceeds(dq, p, d, zt)

\* mutant: the oldest entry is removed in place of the newest
DequePopOldest(dq) == Tail(dq)

\* self.data_history.pop()
DequePop(dq) == SubSeq(dq, 1, Len(dq) - 1)

\* mutant: the window is not slid
DequePopLeftKeep(dq) == dq

\* self.data_history.popleft()
DequePopLeft(dq) == Tail(dq)

\* is_anomaly(data_point): the deque afterwards and the outcome.
\* On an empty array (window_size = 0) mean and std are nan, every
\* comparison with nan is False, and popleft() on the empty deque raises
\* IndexError.
ZScoreStep(dq, p, ws, zt) ==
    LET appended == DequeAppend(dq, p, ws)
    IN  IF ZScoreWarmingUp(appended, ws)
        THEN [history |-> appended, result |-> "false"]
        ELSE IF Len(appended) = 0
        THEN [history |-> appended, result |-> "raise"]
        ELSE IF AnyStdZero(appended)
        THEN [history |-> appended, result |-> "false"]
        ELSE IF ZScoreAnyExceeds(appended, p, zt)
        THEN [history |-> DequePop(appended), result |-> "true"]
        ELSE [history |-> DequePopLeft(appended), result |-> "false"]

(***************************************************************************)
(* OnlineKNNAnomalyDetector                                                *)
(***************************************************************************)
\* if k < 1 or window_size < k: raise ValueError(...)
KNNInitRaises(kk, ws, thr) == kk < 1 \/ ws < kk

\* distance(p1, p2): np.sqrt(np.sum((p1 - p2) ** 2))
Distance(p1, p2) == Sqrt(Square(p1[1] - p2[1]) + Square(p1[2] - p2[2]))

\* np.array([self.distance(point, m) for m in rows])
Distances(point, rows) == [ j \in 1 .. Len(rows) |-> Distance(point, rows[j]) ]

\* dists[self.k - 1] with dists of length n raises IndexError (k >= 1)
KthIndexRaises(kk, n) == kk - 1 >= n

\* np.sort(dists)[self.k - 1]
KthNearest(dists, kk) == Sort(dists)[kk]

\* mutant: the row itself is not excluded
LeaveOneOutKnnWithSelf(mem, i, kk) == KthNearest(Distances(mem[i], mem), kk)

\* the k-NN distance of row i of mem to the other rows (calculate_threshold's loop body)
LeaveOneOutKnn(mem, i, kk) == KthNearest(Distances(mem[i], Delete(mem, i)), kk)

\* calculate_threshold raises IndexError at dists[self.k - 1]
CalculateThresholdRaises(mem, kk) == Len(mem) > 0 /\ KthIndexRaises(kk, Len(mem) - 1)

\* calculate_threshold(): mean_distance + 2.7 * std_distance
calculate_threshold(mem, kk) ==
    LET distances == [ i \in 1 .. Len(mem) |-> LeaveOneOutKnn(mem, i, kk) ]
    IN  AutoThreshold(Len(distances), SeqSum(distances), SeqSum(Squares(distances)))

\* mutant: >= in place of >
ExceedsOrEqualsThreshold(d, thr) ==
    IF thr.tag = "explicit"
    THEN d >= thr.val
    ELSE \/ thr.n * d - thr.sum > 0
            /\ 100 * Square(thr.n * d - thr.sum) >= 729 * (thr.n * thr.sumsq - Square(thr.sum))
         \/ thr.n * d - thr.sum = 0
            /\ thr.n * thr.sumsq - Square(thr.sum) = 0

\* knn_distance > self.threshold, for a threshold that is not None
ExceedsThreshold(d, thr) ==
    IF thr.tag = "explicit"
    THEN d > thr.val
    ELSE /\ thr.n * d - thr.sum > 0
         /\ 100 * Square(thr.n * d - thr.sum) > 729 * (thr.n * thr.sumsq - Square(thr.sum))

\* mutant: the newest row of a full memory is dropped in place of the oldest
MemoryAfterAddDropNewest(mem, p, ws) ==
    IF Len(mem) >= ws THEN Append(SubSeq(mem, 1, Len(mem) - 1), p) ELSE Append(mem, p)

\* mutant: the oldest row is never dropped
MemoryAfterAddNoEvict(mem, p, ws) == Append(mem, p)

\* add_point, lines 83-85: drop the oldest row of a full memory, then append
MemoryAfterAdd(mem, p, ws) ==
    IF Len(mem) >= ws THEN Append(Tail(mem), p) ELSE Append(mem, p)

\* mutant: the fullness test is off by one
NeedsCalibrationEarly(thr, calculated, mem, ws) ==
    thr.tag = "none" /\ ~calculated /\ Len(mem) >= ws - 1

\* mutant: the threshold is recomputed whenever the memory is full
NeedsCalibrationAlways(thr, calculated, mem, ws) == Len(mem) >= ws

\* add_point, line 87: the condition under which calculate_threshold is called
NeedsCalibration(thr, calculated, mem, ws) ==
    thr.tag = "none" /\ ~calculated /\ Len(mem) >= ws

\* add_point(point): the fields afterwards; raised when calculate_threshold
\* raised (memory is already updated then, threshold and flag are not)
add_point(mem, thr, calculated, p, kk, ws) ==
    LET mem2 == MemoryAfterAdd(mem, p, ws)
    IN  IF NeedsCalibration(thr, calculated, mem2, ws)
        THEN IF CalculateThresholdRaises(mem2, kk)
             THEN [memory |-> mem2, threshold |-> thr, calculated |-> calculated,
                   calibrated |-> 1, raised |-> TRUE]
             ELSE [memory |-> mem2, threshold |-> calculate_threshold(mem2, kk),
                   calculated |-> TRUE, calibrated |-> 1, raised |-> FALSE]
        ELSE [memory |-> mem2, threshold |-> thr, calculated |-> calculated,
              calibrated |-> 0, raised |-> FALSE]

\* len(self.memory) < self.window_size
KNNWarmingUp(mem, ws) == Len(mem) < ws

\* is_anomaly = knn_distance > self.threshold
KNNDecision(point, mem, kk, thr) == ExceedsThreshold(KthNearest(Distances(point, mem), kk), thr)

Unchanged(mem, thr, calculated, res) ==
    [memory |-> mem, threshold |-> thr, calculated |-> calculated,
     calibrated |-> 0, result |-> res]

AfterAdd(a, res) ==
    [memory |-> a.memory, threshold |-> a.threshold, calculated |-> a.calculated,
     calibrated |-> a.calibrated, result |-> IF a.raised THEN "raise" ELSE res]

\* mutant: a point classified as not anomalous is not added to memory
KNNStepNeverAdmits(mem, thr, calculated, p, kk, ws) ==
    IF KNNWarmingUp(mem, ws)
    THEN AfterAdd(add_point(mem, thr, calculated, p, kk, ws), "false")
    ELSE IF KthIndexRaises(kk, Len(mem)) \/ thr.tag = "none"
    THEN Unchanged(mem, thr, calculated, "raise")
    ELSE Unchanged(mem, thr, calculated,
                   IF KNNDecision(p, mem, kk, thr) THEN "true" ELSE "false")

\* mutant: the point is added to memory whatever the decision
KNNStepAdmitFlagged(mem, thr, calculated, p, kk, ws) ==
    IF KNNWarmingUp(mem, ws)
    THEN AfterAdd(add_point(mem, thr, calculated, p, kk, ws), "false")
    ELSE IF KthIndexRaises(kk, Len(mem)) \/ thr.tag = "none"
    THEN Unchanged(mem, thr, calculated, "raise")
    ELSE AfterAdd(add_point(mem, thr, calculated, p, kk, ws),
                  IF KNNDecision(p, mem, kk, thr) THEN "true" ELSE "false")

\* is_anomaly(point): the fields afterwards and the outcome.  Comparing
\* knn_distance with a threshold that is still None raises TypeError.
KNNStep(mem, thr, calculated, p, kk, ws) ==
    IF KNNWarmingUp(mem, ws)
    THEN AfterAdd(add_point(mem, thr, calculated, p, kk, ws), "false")
    ELSE IF KthIndexRaises(kk, Len(mem)) \/ thr.tag = "none"
    THEN Unchanged(mem, thr, calculated, "raise")
    ELSE IF KNNDecision(p, mem, kk, thr)
    THEN Unchanged(mem, thr, calculated, "true")
    ELSE AfterAdd(add_point(mem, thr, calculated, p, kk, ws), "false")

(***************************************************************************)
(* The state machine.                                                      *)
(***************************************************************************)
Init ==
    /\ pc = "init"
    /\ detector = "none"
    /\ window_size = 0
    /\ z_threshold = 0
    /\ k = 0
    /\ threshold = NoneThreshold
    /\ is_auto_threshold_calculated = FALSE
    /\ data_history = << >>
    /\ memory = << >>
    /\ calibrations = 0
    /\ points_fed = << >>
    /\ results = << >>

\* ZScoreAnomalyDetector(window_size=ws, z_threshold=zt)
ConstructZScore(ws, zt) ==
    /\ pc = "init"
    /\ IF ZScoreInitRaises(ws, zt)
       THEN /\ pc' = "failed"
            /\ UNCHANGED << detector, window_size, z_threshold, data_history >>
       ELSE /\ pc' = "ready"
            /\ detector' = "zscore"
            /\ window_size' = ws
            /\ z_threshold' = zt
            /\ data_history' = << >>
    /\ UNCHANGED << k, threshold, is_auto_threshold_calculated, memory,
                    calibrations, points_fed, results >>

\* OnlineKNNAnomalyDetector(k=kk, window_size=ws, threshold=thr)
ConstructKNN(kk, ws, thr) ==
    /\ pc = "init"
    /\ IF KNNInitRaises(kk, ws, thr)
       THEN /\ pc' = "failed"
            /\ UNCHANGED << detector, k, window_size, memory,
                            is_auto_threshold_calculated, threshold >>
       ELSE /\ pc' = "ready"
            /\ detector' = "knn"
            /\ k' = kk
            /\ window_size' = ws
            /\ memory' = << >>
            /\ is_auto_threshold_calculated' = FALSE
            /\ threshold' = thr
    /\ UNCHANGED << z_threshold, data_history, calibrations, points_fed, results >>

\* ZScoreAnomalyDetector.is_anomaly(p)
ZScoreIsAnomaly(p) ==
    /\ pc = "ready"
    /\ detector = "zscore"
    /\ Len(points_fed) < MaxCalls
    /\ LET r == ZScoreStep(data_history, p, window_size, z_threshold)
       IN  /\ data_history' = r.history
           /\ results' = Append(results, r.result)
    /\ points_fed' = Append(points_fed, p)
    /\ UNCHANGED << pc, detector, window_size, z_threshold, k, threshold,
                    is_auto_threshold_calculated, memory, calibrations >>

\* OnlineKNNAnomalyDetector.is_anomaly(p)
KNNIsAnomaly(p) ==
    /\ pc = "ready"
    /\ detector = "knn"
    /\ Len(points_fed) < MaxCalls
    /\ LET r == KNNStep(memory, threshold, is_auto_threshold_calculated, p, k, window_size)
       IN  /\ memory' = r.memory
           /\ threshold' = r.threshold
           /\ is_auto_threshold_calculated' = r.calculated
           /\ calibrations' = calibrations + r.calibrated
           /\ results' = Append(results, r.result)
    /\ points_fed' = Append(points_fed, p)
    /\ UNCHANGED << pc, detector, window_size, z_threshold, k, data_history >>

Next ==
    \/ \E ws \in WindowSizes, zt \in ZThresholds : ConstructZScore(ws, zt)
    \/ \E kk \in Ks, ws \in WindowSizes, thr \in ThresholdArgs : ConstructKNN(kk, ws, thr)
    \/ \E p \in Points : ZScoreIsAnomaly(p)
    \/ \E p \in Points : KNNIsAnomaly(p)

Spec == Init /\ [][Next]_vars

TypeOK ==
    /\ pc \in { "init", "ready", "failed" }
    /\ detector \in { "none", "zscore", "knn" }
    /\ Len(points_fed) = Len(results)
    /\ Len(points_fed) <= MaxCalls
    /\ \A i \in 1 .. Len(results) : results[i] \in { "false", "true", "raise" }
    /\ threshold.tag \in { "none", "explicit", "auto" }

(***************************************************************************)
(* Properties.                                                             *)
(***************************************************************************)
Calls == Len(results)

LastResult == results[Calls]

LastPoint == points_fed[Calls]

IsIn(p, rows) == \E j \in 1 .. Len(rows) : rows[j] = p

\* a step that is one is_anomaly call
IsCall == Len(results') = Len(results) + 1

\* the configuration surface as documented: window_size and z_threshold
\* positive; 1 <= k < window_size, threshold absent or positive
ValidZScoreConfiguration ==
    detector = "zscore" /\ window_size >= 1 /\ z_threshold > 0

ValidKNNConfiguration ==
    /\ detector = "knn"
    /\ k >= 1
    /\ k < window_size
    /\ threshold.tag = "explicit" => threshold.val > 0

\* C1: warm-up -- each of the first window_size-1 calls of is_anomaly
\* returns false, for the Z-score detector and for the k-NN detector with
\* or without an explicit threshold.
WarmUpReturnsFalse ==
    \A i \in 1 .. Calls : i <= window_size - 1 => results[i] = "false"

\* the second point fed to a k-NN detector of window 3 is farther from
\* the first than the explicit threshold
WarmUpWitness ==
    /\ ValidKNNConfiguration
    /\ window_size = 3
    /\ threshold = ExplicitThreshold(9)
    /\ Calls = 2
    /\ Distance(points_fed[1], points_fed[2]) > 9

\* C2: a k-NN detector is never constructed with k < 1 or window_size <= k,
\* and a failed construction leaves no detector.
KNNConstructionValidated ==
    /\ (pc = "ready" /\ detector = "knn") => (k >= 1 /\ window_size > k)
    /\ pc = "failed" => detector = "none"

\* C3: no is_anomaly call on a constructed detector raises.
NoCallRaises ==
    \A i \in 1 .. Calls : results[i] # "raise"

\* C4: the retained points never exceed window_size.
BufferBounded ==
    /\ detector = "zscore" => Len(data_history) <= window_size
    /\ detector = "knn" => Len(memory) <= window_size

\* a point has just been admitted into a full Memory
BufferBoundedWitness ==
    /\ ValidKNNConfiguration
    /\ Calls > window_size
    /\ LastResult = "false"
    /\ Len(memory) = window_size

\* C5 (as claimed): once is_anomaly(p) has returned true, Memory never
\* contains an entry equal to p (stated for the valid configurations).
AdmissionLawOriginal ==
    ValidKNNConfiguration =>
        \A i \in 1 .. Calls : results[i] = "true" => ~IsIn(points_fed[i], memory)

\* C5 (amended): a k-NN call that returns true admits nothing -- Memory at
\* the end of the call is Memory as it was before the call.
FlaggedCallAdmitsNothing ==
    [][ (detector = "knn" /\ IsCall /\ results'[Len(results')] = "true")
            => memory' = memory ]_vars

\* a flagged point that equals an entry admitted earlier
FlaggedCallWitness ==
    /\ ValidKNNConfiguration
    /\ Calls > window_size
    /\ LastResult = "true"
    /\ IsIn(LastPoint, memory)

\* C6: the k-NN threshold is write-once -- a threshold that has a value
\* keeps it in every later state (so an explicit one is never replaced by a
\* calibrated one), and calculate_threshold runs at most once.
ThresholdWriteOnce ==
    [][ /\ threshold.tag # "none" => threshold' = threshold
        /\ calibrations' <= 1 ]_vars

\* a calibrated detector has admitted a point after its calibration, so
\* that Memory is no longer the one it was calibrated on
ThresholdWriteOnceWitness ==
    /\ ValidKNNConfiguration
    /\ threshold.tag = "auto"
    /\ is_auto_threshold_calculated
    /\ Calls > window_size
    /\ LastResult = "false"
    /\ memory # SubSeq(points_fed, 1, window_size)

\* d > threshold, written out for the claim: the explicit value, or
\* mean + 2.7 * std of the calibration distances
Beyond(d, thr) ==
    IF thr.tag = "explicit"
    THEN d > thr.val
    ELSE /\ thr.n * d > thr.sum
         /\ Square(10 * (thr.n * d - thr.sum)) > Square(27) * (thr.n * thr.sumsq - Square(thr.sum))

\* the members of Memory that are not farther from p than the threshold
NearMembers(p, mem, thr) == { j \in 1 .. Len(mem) : ~Beyond(Distance(p, mem[j]), thr) }

\* C7: with Memory full, is_anomaly(p) returns true iff the k-th smallest
\* distance from p to the members of Memory is strictly greater than the
\* threshold, i.e. iff fewer than k members are within the threshold.
KNNDecisionRule ==
    [][ (detector = "knn" /\ IsCall /\ Len(memory) = window_size)
            => ( results'[Len(results')] = "true"
                 <=> ( /\ threshold.tag # "none"
                       /\ Cardinality(NearMembers(points_fed'[Len(points_fed')],
                                                  memory, threshold)) < k ) ) ]_vars

\* after the warm-up a far point is flagged and the next point is accepted
KNNDecisionWitness ==
    /\ detector = "knn"
    /\ k = 2
    /\ window_size = 3
    /\ threshold = ExplicitThreshold(9)
    /\ Calls = window_size + 2
    /\ results[window_size + 1] = "true"
    /\ results[window_size + 2] = "false"

\* window_size identical points were fed, all returning false, and then one
\* point that differs from them
ZeroVarianceScenario ==
    /\ detector = "zscore"
    /\ window_size >= 1
    /\ Calls = window_size + 1
    /\ \A i \in 1 .. window_size : points_fed[i] = points_fed[1] /\ results[i] = "false"
    /\ LastPoint # points_fed[1]

ConfigurationValidated ==
    /\ (pc = "ready" /\ detector = "zscore") => (window_size >= 1 /\ z_threshold > 0)
    /\ (pc = "ready" /\ detector = "knn") =>
          (window_size >= 1 /\ (threshold.tag = "explicit" => threshold.val > 0))
    /\ pc = "failed" => detector = "none"


\* the Z-score buffer right after the append of line 36, written out from
\* the buffer before the call: a buffer at capacity loses its oldest entry
PostAppend(buf, p, ws) ==
    IF ws = 0 THEN << >>
    ELSE IF Len(buf) = ws THEN [ j \in 1 .. ws |-> IF j < ws THEN buf[j + 1] ELSE p ]
    ELSE [ j \in 1 .. (Len(buf) + 1) |-> IF j <= Len(buf) THEN buf[j] ELSE p ]

\* some column of buf is constant (population standard deviation zero)
HasConstantColumn(buf) ==
    \E d \in 1 .. 2 : \A i \in 1 .. Len(buf), j \in 1 .. Len(buf) : buf[i][d] = buf[j][d]

\* a Z-score call made on a full post-append buffer that passes the
\* zero-deviation guard
PostWarmUpUnguardedCall ==
    /\ detector = "zscore"
    /\ IsCall
    /\ window_size >= 1
    /\ Len(PostAppend(data_history, points_fed'[Len(points_fed')], window_size)) = window_size
    /\ ~HasConstantColumn(PostAppend(data_history, points_fed'[Len(points_fed')], window_size))

\* C11: post-decision eviction -- on a post-warm-up call with point P that
\* passes the zero-deviation guard, a true result leaves the post-append
\* buffer without its newest entry (P is not retained); a false result
\* leaves the post-append buffer without its oldest entry, with P newest.
PostDecisionEviction ==
    [][ PostWarmUpUnguardedCall =>
          LET P == points_fed'[Len(points_fed')]
              A == PostAppend(data_history, P, window_size)
              R == results'[Len(results')]
          IN  /\ R \in { "true", "false" }
              /\ R = "true" =>
                    data_history' = [ j \in 1 .. (Len(A) - 1) |-> A[j] ]
              /\ R = "false" =>
                    /\ data_history' = [ j \in 1 .. (Len(A) - 1) |-> A[j + 1] ]
                    /\ data_history'[Len(data_history')] = P ]_vars

\* both kinds of eviction have happened: a flagged call and then an
\* unflagged call that passed the guard, each leaving window_size-1 entries
PostDecisionEvictionWitness ==
    /\ ValidZScoreConfiguration
    /\ window_size = 3
    /\ Calls = 5
    /\ results[4] = "true"
    /\ results[5] = "false"
    /\ Len(data_history) = 2
    /\ data_history[2] = points_fed[5]

\* C12: after the first window_size calls the Z-score buffer holds
\* window_size-1 or window_size entries between calls, never fewer, so the
\* warm-up does not recur and each later call computes its statistics over
\* exactly window_size entries, the new point included.
BufferLengthOscillates ==
    [][ (detector = "zscore" /\ IsCall) =>
          /\ Len(results') >= window_size =>
                Len(data_history') \in { window_size - 1, window_size }
          /\ Len(results) >= window_size =>
                Len(PostAppend(data_history, points_fed'[Len(points_fed')],
                               window_size)) = window_size ]_vars

\* the buffer is at window_size-1 entries and at window_size entries in
\* turn: a guard return has left it full after an eviction had left it short
BufferLengthWitness ==
    /\ ValidZScoreConfiguration
    /\ window_size = 3
    /\ Calls = 5
    /\ results[4] = "true"
    /\ Len(data_history) = 3


\* n * |P_d - mean_d| for the last entry P of buf (n entries)
ScaledDeviation(buf, d, x) ==
    LET dev == Len(buf) * x - SeqSum(Column(buf, d))
    IN  IF dev < 0 THEN -dev ELSE dev

\* n^3 * (population variance of column d) = sum of (n*x - sum)^2
ScaledSquaredDeviations(buf, d) ==
    SeqSum([ j \in 1 .. Len(buf) |-> Square(ScaledDeviation(buf, d, buf[j][d])) ])

\* |P_d - mean_d| > zt * std_d, mean and population std taken over buf
DeviatesBeyond(buf, p, d, zt) ==
    \/ zt < 0
    \/ Len(buf) * Square(ScaledDeviation(buf, d, p[d]))
           > Square(zt) * ScaledSquaredDeviations(buf, d)

\* C13: Z-score decision rule -- with window_size entries in the buffer
\* after appending P, the call returns false if any dimension has zero
\* population standard deviation over the buffer, whatever the other
\* dimensions; otherwise it returns true iff in some dimension d
\* |P_d - mean_d| > z_threshold * std_d, mean and std over the buffer
\* including P.
ZScoreDecisionRule ==
    [][ ( /\ detector = "zscore"
          /\ IsCall
          /\ window_size >= 1
          /\ Len(PostAppend(data_history, points_fed'[Len(points_fed')], window_size))
                = window_size )
        => LET P == points_fed'[Len(points_fed')]
               A == PostAppend(data_history, P, window_size)
               R == results'[Len(results')]
           IN  /\ R \in { "true", "false" }
               /\ HasConstantColumn(A) => R = "false"
               /\ ~HasConstantColumn(A) =>
                     (R = "true" <=> \E d \in 1 .. 2 : DeviatesBeyond(A, P, d, z_threshold)) ]_vars

\* the guard wins over a deviation beyond the threshold: (15,0) after two
\* (0,0) is sqrt(2) deviations away in dimension 1, dimension 2 is constant
ZScoreDecisionWitness ==
    /\ ValidZScoreConfiguration
    /\ window_size = 3
    /\ z_threshold = 1
    /\ points_fed = << <<0, 0>>, <<0, 0>>, <<15, 0>> >>
    /\ LastResult = "false"
    /\ DeviatesBeyond(data_history, <<15, 0>>, 1, z_threshold)


\* call i admitted its point: it was made during the warm-up (one of the
\* first window_size calls) or it classified the point as not anomalous
IsAdmission(fed, res, ws, i) == i <= ws \/ res[i] = "false"

\* the points admitted by the first i calls, in arrival order
RECURSIVE AdmittedPoints(_, _, _, _)
AdmittedPoints(fed, res, ws, i) ==
    IF i = 0 THEN << >>
    ELSE IF IsAdmission(fed, res, ws, i)
         THEN Append(AdmittedPoints(fed, res, ws, i - 1), fed[i])
         ELSE AdmittedPoints(fed, res, ws, i - 1)

\* the last n entries of s
LastEntries(s, n) == [ j \in 1 .. n |-> s[Len(s) - n + j] ]

Min(a, b) == IF a <= b THEN a ELSE b

\* C14: k-NN Memory is a pure FIFO of the admitted points -- it equals, in
\* arrival order, the most recent min(window_size, n) of the n points
\* admitted so far; an admission into a full Memory removes exactly the
\* oldest entry; once Memory has window_size entries it keeps that length.
MemoryIsFifoOfAdmitted ==
    [][ (detector' = "knn") =>
          LET adm == AdmittedPoints(points_fed', results', window_size', Len(results'))
          IN  /\ memory' = LastEntries(adm, Min(window_size', Len(adm)))
              /\ Len(memory) = window_size => Len(memory') = window_size
              /\ (Len(memory) = window_size /\ memory' # memory) =>
                    /\ \A j \in 1 .. (window_size - 1) : memory'[j] = memory[j + 1]
                    /\ memory'[window_size] = points_fed'[Len(points_fed')] ]_vars

\* a full Memory has admitted two points and refused one in between
MemoryIsFifoWitness ==
    /\ ValidKNNConfiguration
    /\ window_size = 2
    /\ Calls = 5
    /\ results = << "false", "false", "false", "true", "false" >>
    /\ memory = << points_fed[3], points_fed[5] >>
    /\ points_fed[3] # points_fed[5]


\* C15: a k-NN call that returns true changes nothing -- Memory, threshold
\* and the calibration flag are the same after the call as before it (so
\* later classifications start from the state the flagged call found); a
\* call that returns false after the warm-up admits its point: the oldest
\* entry leaves and the point becomes the newest.
FlaggedCallChangesNothing ==
    [][ (detector = "knn" /\ IsCall) =>
          LET P == points_fed'[Len(points_fed')]
              R == results'[Len(results')]
          IN  /\ R = "true" =>
                    /\ memory' = memory
                    /\ threshold' = threshold
                    /\ is_auto_threshold_calculated' = is_auto_threshold_calculated
                    /\ calibrations' = calibrations
              /\ (R = "false" /\ Len(memory) = window_size) =>
                    /\ memory' = [ j \in 1 .. window_size |->
                                      IF j < window_size THEN memory[j + 1] ELSE P ]
                    /\ threshold' = threshold ]_vars

\* a calibrated detector has flagged one point and admitted the next
FlaggedCallChangesNothingWitness ==
    /\ ValidKNNConfiguration
    /\ threshold.tag = "auto"
    /\ Calls = window_size + 2
    /\ results[window_size + 1] = "true"
    /\ results[window_size + 2] = "false"
    /\ memory[window_size] = LastPoint
    /\ ~IsIn(points_fed[window_size + 1], memory)


\* C16: calibration timing -- without an explicit threshold
\* calculate_threshold runs exactly once, during call number window_size
\* (the call that fills Memory), over a Memory that is exactly the first
\* window_size points fed, before any point has been classified; with an
\* explicit threshold it never runs.
CalibrationTiming ==
    [][ (detector' = "knn") =>
          /\ calibrations' # calibrations =>
                /\ threshold.tag = "none"
                /\ Len(results') = window_size'
                /\ memory' = [ j \in 1 .. window_size' |-> points_fed'[j] ]
                /\ \A i \in 1 .. Len(results) : results[i] = "false"
          /\ threshold'.tag = "explicit" => calibrations' = 0
          /\ threshold'.tag # "explicit" =>
                calibrations' = (IF Len(results') >= window_size' THEN 1 ELSE 0) ]_vars

\* the call that filled Memory has just calibrated the threshold
CalibrationTimingWitness ==
    /\ ValidKNNConfiguration
    /\ window_size = 3
    /\ Calls = window_size
    /\ calibrations = 1
    /\ threshold.tag = "auto"
    /\ memory = points_fed


\* C17: whenever the Memory of a k-NN detector holds window_size entries
\* the threshold is set, so that every comparison knn_distance > threshold
\* has a defined threshold.
ThresholdSetWhenFull ==
    (detector = "knn" /\ Len(memory) = window_size) => threshold.tag # "none"

\* the positions of mem other than i whose distance to mem[i] is below d / at most d
OthersBelow(mem, i, d) ==
    { j \in (1 .. Len(mem)) \ { i } : Distance(mem[i], mem[j]) < d }

OthersWithin(mem, i, d) ==
    { j \in (1 .. Len(mem)) \ { i } : Distance(mem[i], mem[j]) <= d }

\* the kk-th smallest (1-indexed) of the distances from mem[i] to the other
\* positions of mem, equal-valued entries at other positions included
KthOfOthers(mem, i, kk) ==
    CHOOSE d \in { Distance(mem[i], mem[j]) : j \in (1 .. Len(mem)) \ { i } } :
        /\ Cardinality(OthersBelow(mem, i, d)) < kk
        /\ Cardinality(OthersWithin(mem, i, d)) >= kk

\* C18: the calibrated threshold is mean + 2.7 * population std of the
\* k-NN distances of the window_size points of the full Memory, the k-NN
\* distance of a point being the k-th smallest distance to the other
\* window_size-1 entries (only the entry itself is left out, by position).
CalibratedThresholdValue ==
    (detector = "knn" /\ threshold.tag = "auto") =>
        LET mem == [ j \in 1 .. window_size |-> points_fed[j] ]
            knn == [ i \in 1 .. window_size |-> KthOfOthers(mem, i, k) ]
        IN  /\ threshold.n = window_size
            /\ threshold.sum = SeqSum(knn)
            /\ threshold.sumsq = SeqSum([ i \in 1 .. window_size |-> knn[i] * knn[i] ])
            /\ \A p \in Points, q \in Points :
                  ExceedsThreshold(Distance(p, q), threshold)
                      <=> Beyond(Distance(p, q), threshold)

\* calibrated on a Memory with two equal entries and a spread of k-NN distances
CalibratedThresholdWitness ==
    /\ ValidKNNConfiguration
    /\ threshold.tag = "auto"
    /\ window_size = 3
    /\ points_fed[1] = points_fed[2]
    /\ points_fed[3] # points_fed[1]
    /\ threshold.n * threshold.sumsq > threshold.sum * threshold.sum


\* C19: a Z-score detector whose z_threshold squared is at least
\* window_size-1 never returns true.
NeverFlagsUnderLargeThreshold ==
    (detector = "zscore" /\ Square(z_threshold) >= window_size - 1) =>
        \A i \in 1 .. Calls : results[i] # "true"


\* C20 (as claimed): a Z-score call that returns true leaves the buffer
\* exactly as it was before the call (stated for the valid configurations).
FlaggedCallKeepsHistoryOriginal ==
    [][ (ValidZScoreConfiguration /\ IsCall /\ results'[Len(results')] = "true")
            => data_history' = data_history ]_vars

\* C20 (amended): a Z-score call that returns true leaves the buffer as it
\* was before the call when the buffer held fewer than window_size entries;
\* when it held window_size entries (the previous call returned through the
\* zero-deviation guard) the append has evicted the oldest entry and the
\* buffer afterwards is the previous one without its oldest entry.
FlaggedCallKeepsHistoryAmended ==
    [][ (detector = "zscore" /\ IsCall /\ results'[Len(results')] = "true") =>
          /\ Len(data_history) < window_size => data_history' = data_history
          /\ Len(data_history) = window_size =>
                data_history' = [ j \in 1 .. (window_size - 1) |-> data_history[j + 1] ]
          /\ Len(data_history) <= window_size ]_vars

\* a call flagged right after a guard return: the buffer has lost its
\* oldest entry and holds window_size-1 entries
FlaggedCallKeepsHistoryWitness ==
    /\ ValidZScoreConfiguration
    /\ window_size = 3
    /\ Calls = 4
    /\ \A i \in 1 .. 3 : points_fed[i] = points_fed[1]
    /\ results[4] = "true"
    /\ data_history = << points_fed[2], points_fed[3] >>

====
